---- MODULE Spec2Model ----
(***************************************************************************)
(* Model of mega_case_study.py: the SOM-based outlier-to-label pipeline    *)
(* followed by the supervised classifier and the sorted output.            *)
(*                                                                         *)
(* The script is one sequential process; pc is its position.  The third-   *)
(* party steps whose result the script cannot control (SOM training, the   *)
(* neural network's predictions) are nondeterministic choices over small   *)
(* sets.  The scalers are computed as scikit-learn computes them, in       *)
(* IEEE-754 binary64 arithmetic with round-to-nearest-even, so that the    *)
(* exact comparison of line 104 sees the values the script sees.           *)
(***************************************************************************)
EXTENDS Integers, Sequences, FiniteSets, TLC

(***************************************************************************)
(* Natural numbers of arbitrary size: little-endian sequences of limbs in  *)
(* 0..Base-1 without leading zero limbs (zero is the empty sequence).      *)
(* They carry the 53-bit significands of float64 values and their exact    *)
(* products and quotients.                                                 *)
(***************************************************************************)
LimbBits == 15

Base == 32768

RECURSIVE Pow2(_)
Pow2(n) == IF n = 0 THEN 1 ELSE 2 * Pow2(n - 1)

RECURSIVE BNorm(_)
BNorm(a) ==
    IF a = <<>> THEN <<>>
    ELSE IF a[Len(a)] = 0 THEN BNorm(SubSeq(a, 1, Len(a) - 1))
    ELSE a

BFromNat(n) ==
    IF n = 0 THEN <<>>
    ELSE IF n < Base THEN <<n>>
    ELSE IF n < Base * Base THEN <<n % Base, n \div Base>>
    ELSE <<n % Base, (n \div Base) % Base, n \div (Base * Base)>>

Limb(a, i) == IF i <= Len(a) THEN a[i] ELSE 0

RECURSIVE BAddFrom(_, _, _, _)
BAddFrom(a, b, k, carry) ==
    IF k > Len(a) /\ k > Len(b)
    THEN IF carry = 0 THEN <<>> ELSE <<carry>>
    ELSE <<(Limb(a, k) + Limb(b, k) + carry) % Base>>
         \o BAddFrom(a, b, k + 1, (Limb(a, k) + Limb(b, k) + carry) \div Base)

BAdd(a, b) == BAddFrom(a, b, 1, 0)

\* a - b for a >= b
RECURSIVE BSubFrom(_, _, _, _)
BSubFrom(a, b, k, borrow) ==
    IF k > Len(a) THEN <<>>
    ELSE IF Limb(a, k) - Limb(b, k) - borrow < 0
    THEN <<Limb(a, k) - Limb(b, k) - borrow + Base>> \o BSubFrom(a, b, k + 1, 1)
    ELSE <<Limb(a, k) - Limb(b, k) - borrow>> \o BSubFrom(a, b, k + 1, 0)

BSub(a, b) == BNorm(BSubFrom(a, b, 1, 0))

\* -1, 0, 1 as a < b, a = b, a > b
RECURSIVE BCmpFrom(_, _, _)
BCmpFrom(a, b, i) ==
    IF i = 0 THEN 0
    ELSE IF a[i] < b[i] THEN -1
    ELSE IF a[i] > b[i] THEN 1
    ELSE BCmpFrom(a, b, i - 1)

BCmp(a, b) ==
    IF Len(a) < Len(b) THEN -1
    ELSE IF Len(a) > Len(b) THEN 1
    ELSE BCmpFrom(a, b, Len(a))

\* a * k for a limb-sized k
RECURSIVE BMulSmallFrom(_, _, _, _)
BMulSmallFrom(a, k, j, carry) ==
    IF j > Len(a)
    THEN IF carry = 0 THEN <<>> ELSE <<carry>>
    ELSE <<(a[j] * k + carry) % Base>>
         \o BMulSmallFrom(a, k, j + 1, (a[j] * k + carry) \div Base)

BMulSmall(a, k) == BNorm(BMulSmallFrom(a, k, 1, 0))

Zeros(n) == [i \in 1..n |-> 0]

RECURSIVE BMulFrom(_, _, _)
BMulFrom(a, b, j) ==
    IF j > Len(b) THEN <<>>
    ELSE BAdd(Zeros(j - 1) \o BMulSmall(a, b[j]), BMulFrom(a, b, j + 1))

BMul(a, b) == BNorm(BMulFrom(a, b, 1))

RECURSIVE SmallBitLen(_)
SmallBitLen(n) == IF n = 0 THEN 0 ELSE 1 + SmallBitLen(n \div 2)

BBitLen(a) ==
    IF a = <<>> THEN 0
    ELSE LimbBits * (Len(a) - 1) + SmallBitLen(a[Len(a)])

\* a * 2^n
BShl(a, n) ==
    IF a = <<>> THEN <<>>
    ELSE Zeros(n \div LimbBits) \o BMulSmall(a, Pow2(n % LimbBits))

\* floor(a / 2^s) for s < LimbBits
RECURSIVE BShrSmallFrom(_, _, _)
BShrSmallFrom(a, s, i) ==
    IF i > Len(a) THEN <<>>
    ELSE <<(a[i] \div Pow2(s)) + (Limb(a, i + 1) % Pow2(s)) * Pow2(LimbBits - s)>>
         \o BShrSmallFrom(a, s, i + 1)

\* floor(a / 2^n)
BShr(a, n) ==
    IF n \div LimbBits >= Len(a) THEN <<>>
    ELSE BNorm(BShrSmallFrom(SubSeq(a, n \div LimbBits + 1, Len(a)), n % LimbBits, 1))

BIsOdd(a) == a # <<>> /\ a[1] % 2 = 1

\* a small bignum (below Base^2) as a number
BToNat(a) == Limb(a, 1) + Limb(a, 2) * Base

\* Subtract b from r until r < b, counting in q (r < b already, or a few
\* steps away from it).
RECURSIVE BReduce(_, _, _)
BReduce(r, b, q) ==
    IF BCmp(r, b) >= 0 THEN BReduce(BSub(r, b), b, q + 1)
    ELSE [r |-> r, q |-> q]

\* One limb of long division: for r < b * Base and a 53-bit b, the limb
\* floor(r / b) and the remainder.  The limb is first estimated from the
\* leading bits of r and b (never too high), then corrected.
BDivLimbEst(r, b, est) == BReduce(BSub(r, BMulSmall(b, est)), b, est)

BDivLimb(r, b) ==
    BDivLimbEst(r, b, BToNat(BShr(r, BBitLen(b) - LimbBits))
                      \div (BToNat(BShr(b, BBitLen(b) - LimbBits)) + 1))

\* floor(a * Base^n / b) and whether the division left a remainder, for
\* 0 < a < 2b: long division, one limb of the quotient per step.  r < b is
\* the running remainder, q the quotient so far.
RECURSIVE BDivLimbs(_, _, _, _)
BDivNext(d, b, q, n) == BDivLimbs(d.r, b, BNorm(<<d.q>> \o q), n - 1)

BDivLimbs(r, b, q, n) ==
    IF n = 0 THEN [q |-> q, inexact |-> r # <<>>]
    ELSE BDivNext(BDivLimb(BShl(r, LimbBits), b), b, q, n)

BDivFrom(d, b, n) == BDivLimbs(d.r, b, BFromNat(d.q), n)

BDiv(a, b, n) == BDivFrom(BReduce(a, b, 0), b, n)

(***************************************************************************)
(* float64 values: sign, 53-bit significand m and exponent e, the value    *)
(* being (-1)^neg * m * 2^e.  Zero is [neg FALSE, m <<>>, e 0].  The       *)
(* magnitudes the script handles stay far from the overflow and subnormal  *)
(* ranges, so the exponent is left unbounded.                              *)
(***************************************************************************)
PrecBits == 53

\* limbs of quotient computed by a division: 60 bits, more than PrecBits + 2
QuotientLimbs == 4

FZero == [neg |-> FALSE, m |-> <<>>, e |-> 0]

\* m has more than 53 bits: q is m without its last d bits, c compares the
\* bits cut off with half a unit of q (-1, 0, 1).  Round to nearest, ties to
\* even; a carry out of the 53 bits moves the exponent.
FRoundUp(c, q, sticky) == c > 0 \/ (c = 0 /\ (sticky \/ BIsOdd(q)))

FRoundCarry(neg, q1, e) ==
    IF BBitLen(q1) > PrecBits
    THEN [neg |-> neg, m |-> BShr(q1, 1), e |-> e + 1]
    ELSE [neg |-> neg, m |-> q1, e |-> e]

FRoundCut(neg, m, e, sticky, d, q) ==
    FRoundCarry(neg,
                IF FRoundUp(BCmp(BSub(m, BShl(q, d)), BShl(<<1>>, d - 1)), q, sticky)
                THEN BAdd(q, <<1>>) ELSE q,
                e + d)

FRoundLen(neg, m, e, sticky, len) ==
    IF len <= PrecBits
    THEN [neg |-> neg, m |-> BShl(m, PrecBits - len), e |-> e - (PrecBits - len)]
    ELSE FRoundCut(neg, m, e, sticky, len - PrecBits, BShr(m, len - PrecBits))

\* Round the exact value m * 2^e (plus a nonzero tail below its last bit
\* when sticky) to the nearest float64, ties to even.
FRound(neg, m, e, sticky) ==
    IF m = <<>> THEN FZero ELSE FRoundLen(neg, m, e, sticky, BBitLen(m))

\* int -> float64 (exact for the magnitudes used here)
FFromInt(n) ==
    IF n < 0 THEN FRound(TRUE, BFromNat(-n), 0, FALSE)
    ELSE FRound(FALSE, BFromNat(n), 0, FALSE)

FNeg(a) == IF a.m = <<>> THEN a ELSE [a EXCEPT !.neg = ~a.neg]

\* the sum of the aligned significands ma and mb of a and b, both times 2^e
FAddAligned(a, b, ma, mb, e) ==
    IF a.neg = b.neg THEN FRound(a.neg, BAdd(ma, mb), e, FALSE)
    ELSE IF BCmp(ma, mb) = 0 THEN FZero
    ELSE IF BCmp(ma, mb) > 0 THEN FRound(a.neg, BSub(ma, mb), e, FALSE)
    ELSE FRound(b.neg, BSub(mb, ma), e, FALSE)

FAddAt(a, b, e) == FAddAligned(a, b, BShl(a.m, a.e - e), BShl(b.m, b.e - e), e)

FAdd(a, b) ==
    IF a.m = <<>> THEN b
    ELSE IF b.m = <<>> THEN a
    ELSE FAddAt(a, b, IF a.e < b.e THEN a.e ELSE b.e)

FSub(a, b) == FAdd(a, FNeg(b))

FMul(a, b) ==
    IF a.m = <<>> \/ b.m = <<>> THEN FZero
    ELSE FRound(a.neg # b.neg, BMul(a.m, b.m), a.e + b.e, FALSE)

FDivRound(a, b, d) ==
    FRound(a.neg # b.neg, d.q, a.e - b.e - QuotientLimbs * LimbBits, d.inexact)

\* a / b for b # 0
FDiv(a, b) ==
    IF a.m = <<>> THEN FZero ELSE FDivRound(a, b, BDiv(a.m, b.m, QuotientLimbs))

FIsNegative(d) == d.m # <<>> /\ d.neg

\* a < b
FLess(a, b) == FIsNegative(FSub(a, b))

FMinOf(a, b) == IF FLess(b, a) THEN b ELSE a

FMaxOf(a, b) == IF FLess(a, b) THEN b ELSE a

(***************************************************************************)
(* Matrices are sequences of rows, rows are sequences of cells.            *)
(***************************************************************************)
NumRows(M) == Len(M)

NumCols(M) == IF M = <<>> THEN 0 ELSE Len(M[1])

Column(M, j) == [i \in 1..Len(M) |-> M[i][j]]

\* DataFrame.values handed to scikit-learn: every cell as a float64
AsFloat(M) == [i \in 1..Len(M) |-> [j \in 1..Len(M[i]) |-> FFromInt(M[i][j])]]

RECURSIVE FMinSeq(_)
FMinSeq(col) ==
    IF Len(col) = 1 THEN col[1]
    ELSE FMinOf(col[1], FMinSeq(Tail(col)))

RECURSIVE FMaxSeq(_)
FMaxSeq(col) ==
    IF Len(col) = 1 THEN col[1]
    ELSE FMaxOf(col[1], FMaxSeq(Tail(col)))

(***************************************************************************)
(* MinMaxScaler(feature_range = (0, 1)).                                   *)
(*   fit:               data_range = data_max - data_min                   *)
(*                      scale_ = (1 - 0) / data_range   (1.0 for range 0)  *)
(*                      min_   = 0 - data_min * scale_                     *)
(*   transform:         X *= scale_ ; X += min_                            *)
(*   inverse_transform: X -= min_   ; X /= scale_                          *)
(***************************************************************************)
HandleZerosInScale(range) == IF range.m = <<>> THEN FFromInt(1) ELSE range

MinMaxState(dmin, scale) ==
    [kind   |-> "MinMaxScaler",
     scale_ |-> scale,
     min_   |-> [j \in 1..Len(dmin) |-> FSub(FFromInt(0), FMul(dmin[j], scale[j]))]]

MinMaxScale(dmin, dmax) ==
    [j \in 1..Len(dmin) |->
        FDiv(FSub(FFromInt(1), FFromInt(0)), HandleZerosInScale(FSub(dmax[j], dmin[j])))]

MinMaxRange(dmin, dmax) == MinMaxState(dmin, MinMaxScale(dmin, dmax))

MinMaxFit(M) ==
    MinMaxRange([j \in 1..NumCols(M) |-> FMinSeq(Column(M, j))],
                [j \in 1..NumCols(M) |-> FMaxSeq(Column(M, j))])

MinMaxTransform(st, M) ==
    [i \in 1..Len(M) |->
        [j \in 1..Len(M[i]) |-> FAdd(FMul(M[i][j], st.scale_[j]), st.min_[j])]]

\* Variant: X /= scale_ without X -= min_
MinMaxInverseNoMin(st, M) ==
    [r \in 1..Len(M) |-> [j \in 1..Len(M[r]) |-> FDiv(M[r][j], st.scale_[j])]]

MinMaxInverse(st, M) ==
    [i \in 1..Len(M) |->
        [j \in 1..Len(M[i]) |-> FDiv(FSub(M[i][j], st.min_[j]), st.scale_[j])]]

(***************************************************************************)
(* StandardScaler: z = (x - mean) / sqrt(var), scale 1 for a constant      *)
(* column.  No later step of the script compares standardized values, so   *)
(* a cell is kept exactly, as the pair (num, den2) standing for            *)
(* num / sqrt(den2), with num = n*x - sum(col), den2 = n*sum(col^2) -      *)
(* sum(col)^2 over the n rows of the fitted column.                        *)
(***************************************************************************)
RECURSIVE SumSeq(_)
SumSeq(q) == IF q = <<>> THEN 0 ELSE q[1] + SumSeq(Tail(q))

SumSquares(col) == SumSeq([r \in 1..Len(col) |-> col[r] * col[r]])

Den2(n, total, squares) ==
    IF n * squares - total * total = 0 THEN 1 ELSE n * squares - total * total

StandardFit(M) ==
    [kind  |-> "StandardScaler",
     n     |-> Len(M),
     sum_  |-> [j \in 1..NumCols(M) |-> SumSeq(Column(M, j))],
     den2_ |-> [j \in 1..NumCols(M) |->
                  Den2(Len(M), SumSeq(Column(M, j)), SumSquares(Column(M, j)))]]

StandardTransform(st, M) ==
    [i \in 1..Len(M) |->
        [j \in 1..Len(M[i]) |->
            [num |-> st.n * M[i][j] - st.sum_[j], den2 |-> st.den2_[j]]]]

(***************************************************************************)
(* Bounds of the model.  A dataset row is                                  *)
(* <<customer_id, feature_1 .. feature_NumFeatures, class>>.               *)
(***************************************************************************)
MaxRows == 3

MaxId == 6

NumFeatures == 1

MaxFeature == 1

MaxProb == 1

MaxClass == 0

MaxMID == 1

\* x = 10, y = 10 of MiniSom(...)
GridX == 10

GridY == 10

Grid == (0..(GridX - 1)) \X (0..(GridY - 1))

\* the coordinates hardcoded in line 89
FraudCoord1 == <<5, 3>>

FraudCoord2 == <<8, 3>>

SelectedCoords == <<FraudCoord1, FraudCoord2>>

\* The nodes of the grid that the model lets a row win: the two named in
\* line 89 and one other.
Coords == {c \in Grid : c \in {<<5, 3>>, <<8, 3>>, <<0, 0>>}}

NumColumns == NumFeatures + 2

MaxValue == IF MaxId > MaxFeature THEN MaxId ELSE MaxFeature

Rows ==
    {r \in [1..NumColumns -> 0..MaxValue] :
        /\ r[1] \in 1..MaxId
        /\ \A j \in 2..(NumColumns - 1) : r[j] \in 0..MaxFeature
        /\ r[NumColumns] \in 0..MaxClass}

\* customer_id is a unique key; the files the model reads list the
\* customers by ascending id
AscendingIds(d) == \A r \in 1..(Len(d) - 1) : d[r][1] < d[r + 1][1]

RECURSIVE DatasetsOfLen(_)
DatasetsOfLen(n) ==
    IF n = 0 THEN {<<>>}
    ELSE {Append(d, r) : <<d, r>> \in
             {p \in DatasetsOfLen(n - 1) \X Rows :
                 AscendingIds(Append(p[1], p[2]))}}

Datasets == UNION {DatasetsOfLen(n) : n \in 1..MaxRows}

VARIABLES
    pc,          \* the line the script is about to execute, "done" or "error"
    error,       \* the exception that ended the script, "" if none
    dataset,     \* the DataFrame read in line 16
    X,           \* line 24, rescaled in line 31
    Y,           \* line 25
    sc,          \* the scaler the name sc is bound to
    scaler_log,  \* every use of a scaler so far: what it was fitted on, what it was applied to
    som,         \* the trained map: winner of each row, distance map
    mappings,    \* line 82
    frauds,      \* lines 89 and 91
    customers,   \* lines 98 and 111
    is_fraud,    \* line 100, filled by the loop of lines 103-105
    i,           \* the loop variable of line 103
    y_pred       \* lines 136-138

vars == <<pc, error, dataset, X, Y, sc, scaler_log, som, mappings, frauds,
          customers, is_fraud, i, y_pred>>

NoScaler == [kind |-> "none"]

Untrained == [trained |-> FALSE, winner |-> <<>>, distance_map |-> <<>>]

Init ==
    /\ dataset \in Datasets
    /\ pc = "L24"
    /\ error = ""
    /\ X = <<>>
    /\ Y = <<>>
    /\ sc = NoScaler
    /\ scaler_log = <<>>
    /\ som = Untrained
    /\ mappings = <<>>
    /\ frauds = <<>>
    /\ customers = <<>>
    /\ is_fraud = <<>>
    /\ i = 0
    /\ y_pred = <<>>

\* dataset.iloc[:, a:b].values (columns a..b, 1-based and inclusive here)
ILocCols(d, a, b) == [r \in 1..Len(d) |-> SubSeq(d[r], a, b)]

\* lines 24-25
ExtractXY ==
    /\ pc = "L24"
    /\ X' = ILocCols(dataset, 1, NumColumns - 1)
    /\ Y' = [r \in 1..Len(dataset) |-> dataset[r][NumColumns]]
    /\ pc' = "L30"
    /\ UNCHANGED <<error, dataset, sc, scaler_log, som, mappings, frauds,
                   customers, is_fraud, i, y_pred>>

NewMinMaxScaler == [kind |-> "MinMaxScaler"]

\* Variant: line 110 missing, sc still the scaler of line 30
StillMinMaxScaler == [kind |-> "MinMaxScaler"]

NewStandardScaler == [kind |-> "StandardScaler"]

\* scaler.fit_transform(M) is fit, then transform; MinMaxScaler works on the
\* float64 copy of its input
ScalerFit(scaler, M) ==
    IF scaler.kind = "MinMaxScaler" THEN MinMaxFit(AsFloat(M)) ELSE StandardFit(M)

ScalerTransform(st, M) ==
    IF st.kind = "MinMaxScaler" THEN MinMaxTransform(st, AsFloat(M))
    ELSE StandardTransform(st, M)

Used(st, op, on) == [kind |-> st.kind, fitted_on |-> st.fitted_on, op |-> op, on |-> on]

\* line 30
BindMinMax ==
    /\ pc = "L30"
    /\ sc' = NewMinMaxScaler
    /\ pc' = "L31"
    /\ UNCHANGED <<error, dataset, X, Y, scaler_log, som, mappings, frauds,
                   customers, is_fraud, i, y_pred>>

\* line 31
ScaleX ==
    /\ pc = "L31"
    /\ sc' = [fitted_on |-> "X"] @@ ScalerFit(sc, X)
    /\ X' = ScalerTransform(sc', X)
    /\ scaler_log' = Append(scaler_log, Used(sc', "fit_transform", "X"))
    /\ pc' = "L55"
    /\ UNCHANGED <<error, dataset, Y, som, mappings, frauds, customers,
                   is_fraud, i, y_pred>>

RowSet(M) == {M[r] : r \in 1..Len(M)}

\* lines 50-55: MiniSom(...), random_weights_init, train_random.  Training is
\* unseeded; what the script keeps of it is, for every row, the node that
\* wins it (som.winner is a function of the row) and the distance map.
TrainSom ==
    /\ pc = "L55"
    /\ \E w \in [RowSet(X) -> Coords], dm \in [Coords -> 0..MaxMID] :
          som' = [trained |-> TRUE, winner |-> w, distance_map |-> dm]
    /\ pc' = "L82"
    /\ UNCHANGED <<error, dataset, X, Y, sc, scaler_log, mappings, frauds,
                   customers, is_fraud, i, y_pred>>

\* Variant: winmap[key] = [x], the bucket overwritten instead of extended
DictOverwrite(d, key, x) ==
    [c \in DOMAIN d \cup {key} |-> IF c = key THEN <<x>> ELSE d[c]]

\* winmap[key].append(x), the key created with an empty bucket if missing
DictAppend(d, key, x) ==
    [c \in DOMAIN d \cup {key} |->
        IF c = key
        THEN IF key \in DOMAIN d THEN Append(d[key], x) ELSE <<x>>
        ELSE d[c]]

\* som.win_map(data): for every row, in order, append it to the bucket of
\* its winner; a node that wins no row has no entry.
RECURSIVE WinMapFrom(_, _, _, _)
WinMapFrom(winner, data, r, winmap) ==
    IF r > Len(data) THEN winmap
    ELSE WinMapFrom(winner, data, r + 1, DictAppend(winmap, winner[data[r]], data[r]))

WinMap(winner, data) == WinMapFrom(winner, data, 1, <<>>)

\* line 82
BuildMappings ==
    /\ pc = "L82"
    /\ mappings' = WinMap(som.winner, X)
    /\ pc' = "L89"
    /\ UNCHANGED <<error, dataset, X, Y, sc, scaler_log, som, frauds,
                   customers, is_fraud, i, y_pred>>

\* line 89: mappings[(5, 3)] and mappings[(8, 3)] are looked up, then
\* concatenated along axis 0.  A coordinate without an entry ends the script.
ConcatFrauds ==
    /\ pc = "L89"
    /\ IF \A k \in 1..Len(SelectedCoords) : SelectedCoords[k] \in DOMAIN mappings
       THEN /\ frauds' = mappings[SelectedCoords[1]] \o mappings[SelectedCoords[2]]
            /\ pc' = "L91"
            /\ error' = error
       ELSE /\ frauds' = frauds
            /\ pc' = "error"
            /\ error' = "KeyError"
    /\ UNCHANGED <<dataset, X, Y, sc, scaler_log, som, mappings, customers,
                   is_fraud, i, y_pred>>

\* line 91
InverseFrauds ==
    /\ pc = "L91"
    /\ frauds' = MinMaxInverse(sc, frauds)
    /\ scaler_log' = Append(scaler_log, Used(sc, "inverse_transform", "frauds"))
    /\ pc' = "L98"
    /\ UNCHANGED <<error, dataset, X, Y, sc, som, mappings, customers,
                   is_fraud, i, y_pred>>

\* Variant: dataset.iloc[1:, :].values, the first row dropped instead of
\* the first column
CustomersWithoutFirstRow(d) == [r \in 1..(Len(d) - 1) |-> d[r + 1]]

\* dataset.iloc[:, 1:].values
CustomersOf(d) == ILocCols(d, 2, NumColumns)

\* line 98
ExtractCustomers ==
    /\ pc = "L98"
    /\ customers' = CustomersOf(dataset)
    /\ pc' = "L100"
    /\ UNCHANGED <<error, dataset, X, Y, sc, scaler_log, som, mappings,
                   frauds, is_fraud, i, y_pred>>

\* line 100; the loop of line 103 starts at the first row
InitLabels ==
    /\ pc = "L100"
    /\ is_fraud' = Zeros(Len(dataset))
    /\ i' = 1
    /\ pc' = "L103"
    /\ UNCHANGED <<error, dataset, X, Y, sc, scaler_log, som, mappings,
                   frauds, customers, y_pred>>

\* `id in frauds` for an int id and a 2-D float64 array: (frauds == id).any(),
\* the id compared, as a float64, with every cell of the array
InArray(id, M) ==
    \E r \in 1..Len(M) : \E c \in 1..Len(M[r]) : M[r][c] = FFromInt(id)

\* lines 103-105, one iteration (rows are numbered from 1 here)
LabelRow ==
    /\ pc = "L103"
    /\ i <= Len(dataset)
    /\ is_fraud' = IF InArray(dataset[i][1], frauds)
                   THEN [is_fraud EXCEPT ![i] = 1]
                   ELSE is_fraud
    /\ i' = i + 1
    /\ UNCHANGED <<pc, error, dataset, X, Y, sc, scaler_log, som, mappings,
                   frauds, customers, y_pred>>

\* line 103, range exhausted
LabelsDone ==
    /\ pc = "L103"
    /\ i > Len(dataset)
    /\ pc' = "L110"
    /\ UNCHANGED <<error, dataset, X, Y, sc, scaler_log, som, mappings,
                   frauds, customers, is_fraud, i, y_pred>>

\* line 110
BindStandard ==
    /\ pc = "L110"
    /\ sc' = NewStandardScaler
    /\ pc' = "L111"
    /\ UNCHANGED <<error, dataset, X, Y, scaler_log, som, mappings, frauds,
                   customers, is_fraud, i, y_pred>>

\* line 111
ScaleCustomers ==
    /\ pc = "L111"
    /\ sc' = [fitted_on |-> "customers"] @@ ScalerFit(sc, customers)
    /\ customers' = ScalerTransform(sc', customers)
    /\ scaler_log' = Append(scaler_log, Used(sc', "fit_transform", "customers"))
    /\ pc' = "L133"
    /\ UNCHANGED <<error, dataset, X, Y, som, mappings, frauds, is_fraud, i,
                   y_pred>>

\* line 133: fit refuses inputs and targets of different row counts
FitClassifier ==
    /\ pc = "L133"
    /\ IF Len(customers) = Len(is_fraud)
       THEN pc' = "L136" /\ error' = error
       ELSE pc' = "error" /\ error' = "ValueError"
    /\ UNCHANGED <<dataset, X, Y, sc, scaler_log, som, mappings, frauds,
                   customers, is_fraud, i, y_pred>>

\* line 136: one probability per row of customers, k standing for k / MaxProb
Predict ==
    /\ pc = "L136"
    /\ y_pred' \in [1..Len(customers) -> [1..1 -> 0..MaxProb]]
    /\ pc' = "L137"
    /\ UNCHANGED <<error, dataset, X, Y, sc, scaler_log, som, mappings,
                   frauds, customers, is_fraud, i>>

\* np.concatenate((A, B), axis = 1)
HConcat(A, B) == [r \in 1..Len(A) |-> A[r] \o B[r]]

\* line 137: concatenation along axis 1 needs equal row counts
ConcatIds ==
    /\ pc = "L137"
    /\ IF Len(dataset) = Len(y_pred)
       THEN /\ y_pred' = HConcat(ILocCols(dataset, 1, 1), y_pred)
            /\ pc' = "L138"
            /\ error' = error
       ELSE /\ y_pred' = y_pred
            /\ pc' = "error"
            /\ error' = "ValueError"
    /\ UNCHANGED <<dataset, X, Y, sc, scaler_log, som, mappings, frauds,
                   customers, is_fraud, i>>

\* Insert index r into the index list idx, sorted by key, behind the
\* indices whose key is not larger.
RECURSIVE InsertSorted(_, _, _)
InsertSorted(idx, r, keys) ==
    IF idx = <<>> THEN <<r>>
    ELSE IF keys[idx[Len(idx)]] <= keys[r] THEN Append(idx, r)
    ELSE Append(InsertSorted(SubSeq(idx, 1, Len(idx) - 1), r, keys), idx[Len(idx)])

\* keys.argsort(): the indices of keys in ascending order of key (for arrays
\* this short numpy sorts by insertion)
RECURSIVE ArgSortFrom(_, _, _)
ArgSortFrom(keys, r, idx) ==
    IF r > Len(keys) THEN idx
    ELSE ArgSortFrom(keys, r + 1, InsertSorted(idx, r, keys))

ArgSort(keys) == ArgSortFrom(keys, 1, <<>>)

\* y_pred[y_pred[:, 1].argsort()]: whole rows taken in the order of argsort
\* Variant: only the probability column sorted, the ids left in place
SortProbabilityColumnOnly(M) ==
    [r \in 1..Len(M) |-> <<M[r][1], M[ArgSort(Column(M, 2))[r]][2]>>]

Take(M, order) == [r \in 1..Len(order) |-> M[order[r]]]

SortByProbability(M) == Take(M, ArgSort(Column(M, 2)))

\* line 138; line 140 prints y_pred as it is then
SortPredictions ==
    /\ pc = "L138"
    /\ y_pred' = SortByProbability(y_pred)
    /\ pc' = "done"
    /\ UNCHANGED <<error, dataset, X, Y, sc, scaler_log, som, mappings,
                   frauds, customers, is_fraud, i>>

Next ==
    \/ ExtractXY
    \/ BindMinMax
    \/ ScaleX
    \/ TrainSom
    \/ BuildMappings
    \/ ConcatFrauds
    \/ InverseFrauds
    \/ ExtractCustomers
    \/ InitLabels
    \/ LabelRow
    \/ LabelsDone
    \/ BindStandard
    \/ ScaleCustomers
    \/ FitClassifier
    \/ Predict
    \/ ConcatIds
    \/ SortPredictions

Spec == Init /\ [][Next]_vars

(***************************************************************************)
(* Properties                                                              *)
(***************************************************************************)
\* the loop of lines 103-105 has finished
LabelsBuilt == pc \in {"L110", "L111", "L133", "L136", "L137", "L138", "done"}

\* the first column of the inverse-transformed fraud rows
RecoveredIds == {frauds[r][1] : r \in 1..Len(frauds)}

FraudNodes == {SelectedCoords[k] : k \in 1..Len(SelectedCoords)}

\* C1: once the labelling loop has finished, is_fraud[r] = 1 exactly for the
\* rows whose customer_id is in the ID column (first column) of the recovered
\* fraud rows; an id that equals only another cell of a fraud row is not
\* flagged.
C1_LabelIffIdInFraudIdColumn ==
    LabelsBuilt =>
        \A r \in 1..Len(dataset) :
            is_fraud[r] = 1 <=> FFromInt(dataset[r][1]) \in RecoveredIds

\* C2: a selected coordinate that won no row raises no error (it contributes
\* zero rows and the labels are those of the remaining coordinate).
C2_MissingCoordinateRaisesNothing ==
    (\E c \in FraudNodes : c \notin DOMAIN mappings) => pc # "error"

\* C3: once the labels are built, sum(is_fraud) is the number of distinct
\* customer ids recovered from the rows of the selected coordinates.
C3_SumIsDistinctRecoveredIds ==
    LabelsBuilt => SumSeq(is_fraud) = Cardinality(RecoveredIds)

\* C4: the label vector is 1 exactly at the indices of the rows in the
\* selected buckets and 0 elsewhere, in dataset order.
C4_LabelsAtBucketIndices ==
    LabelsBuilt =>
        \A r \in 1..Len(dataset) :
            is_fraud[r] = 1 <=> som.winner[X[r]] \in FraudNodes

MappingsBuilt == pc \notin {"L24", "L30", "L31", "L55", "L82"}

\* the places (bucket, position) where row x sits in mappings
PlacesOf(x) ==
    {p \in UNION {{<<c, k>> : k \in 1..Len(mappings[c])} : c \in DOMAIN mappings} :
        mappings[p[1]][p[2]] = x}

BucketSizes == [c \in DOMAIN mappings |-> Len(mappings[c])]

RECURSIVE SumOver(_, _)
SumOver(f, S) ==
    IF S = {} THEN 0
    ELSE LET c == CHOOSE c \in S : TRUE IN f[c] + SumOver(f, S \ {c})

\* C5: the buckets of win_map(X) partition the rows of X: every row sits in
\* exactly one place, which is in the bucket of its winner, and the buckets
\* hold as many rows as X has.
C5_WinMapPartitionsRows ==
    MappingsBuilt =>
        /\ \A r \in 1..Len(X) :
              /\ Cardinality(PlacesOf(X[r])) = 1
              /\ \A p \in PlacesOf(X[r]) : p[1] = som.winner[X[r]]
        /\ SumOver(BucketSizes, DOMAIN mappings) = Len(X)

\* C5 happens: a node that won several rows next to another node with rows
C5_Witness ==
    /\ MappingsBuilt
    /\ Cardinality(DOMAIN mappings) >= 2
    /\ \E c \in DOMAIN mappings : Len(mappings[c]) >= 2

\* the number of rows of M equal to row
Occurrences(M, row) == Cardinality({r \in 1..Len(M) : M[r] = row})

\* C6: the printed y_pred holds the (customer_id, probability) pairs of the
\* dataset rows, each id with the probability predicted for its own row, in
\* ascending order of probability.
C6_SortedPairs ==
    [][/\ (pc = "L137" /\ pc' = "L138") =>
              /\ Len(y_pred') = Len(dataset)
              /\ \A r \in 1..Len(dataset) : y_pred'[r] = <<dataset[r][1], y_pred[r][1]>>
       /\ (pc = "L138" /\ pc' = "done") =>
              /\ Len(y_pred') = Len(y_pred)
              /\ \A r \in 1..Len(y_pred) :
                    Occurrences(y_pred', y_pred[r]) = Occurrences(y_pred, y_pred[r])
              /\ \A r \in 1..(Len(y_pred') - 1) : y_pred'[r][2] <= y_pred'[r + 1][2]
      ]_vars

\* C6 happens: the sort moved rows
C6_Witness ==
    /\ pc = "done"
    /\ \E r \in 1..Len(dataset) : y_pred[r][1] # dataset[r][1]

\* the rows of the dataset won by node c, in dataset order
RECURSIVE RowsWonFrom(_, _)
RowsWonFrom(c, r) ==
    IF r > Len(dataset) THEN <<>>
    ELSE IF som.winner[X[r]] = c
    THEN <<SubSeq(dataset[r], 1, NumColumns - 1)>> \o RowsWonFrom(c, r + 1)
    ELSE RowsWonFrom(c, r + 1)

\* the original rows collected from the selected buckets, as float64
OriginalFraudRows == AsFloat(RowsWonFrom(<<5, 3>>, 1) \o RowsWonFrom(<<8, 3>>, 1))

FAbs(a) == [a EXCEPT !.neg = FALSE]

\* the largest value of column j of the dataset (the values are not negative)
ColumnMax(j) ==
    CHOOSE v \in {dataset[r][j] : r \in 1..Len(dataset)} :
        \A r \in 1..Len(dataset) : dataset[r][j] <= v

\* |a - b| < 2^-30 * (1 + top), 2^-30 being below 1e-9
Close(a, b, top) ==
    FLess([FAbs(FSub(a, b)) EXCEPT !.e = @ + 30], FFromInt(1 + top))

\* C7 as stated: the inverse transform gives back the original rows exactly,
\* so the first column of the recovered fraud rows is the customer_id.
C7_RoundTripExact ==
    pc = "L98" => frauds = OriginalFraudRows

\* C7 as amended: the inverse transform gives back the original rows within
\* a floating-point tolerance of 1e-9 relative to the magnitude of the column
\* (|recovered - original| < 1e-9 * (1 + max |column|)), not bit for bit.
C7_RoundTripWithinTolerance ==
    pc = "L98" =>
        /\ Len(frauds) = Len(OriginalFraudRows)
        /\ \A r \in 1..Len(frauds) : \A j \in 1..(NumColumns - 1) :
              Close(frauds[r][j], OriginalFraudRows[r][j], ColumnMax(j))

\* C7 happens: a recovered cell that is close to the original, not equal
C7_Witness ==
    /\ pc = "L98"
    /\ \E r \in 1..Len(frauds) : frauds[r][1] # OriginalFraudRows[r][1]

\* C8: the min-max scaler is fitted on X and used on X and on the fraud
\* rows only, the standard scaler is fitted and used on customers only; the
\* fraud rows are inverse-transformed while sc is the min-max scaler fitted
\* on X, before sc is rebound.
C8_ScalersKeptApart ==
    /\ \A k \in 1..Len(scaler_log) :
          /\ scaler_log[k].kind = "MinMaxScaler" =>
                scaler_log[k].fitted_on = "X" /\ scaler_log[k].on \in {"X", "frauds"}
          /\ scaler_log[k].kind = "StandardScaler" =>
                scaler_log[k].fitted_on = "customers" /\ scaler_log[k].on = "customers"
          /\ scaler_log[k].on = "frauds" =>
                \A n \in 1..k : scaler_log[n].kind = "MinMaxScaler"
    /\ pc \in {"L55", "L82", "L89", "L91"} =>
          sc.kind = "MinMaxScaler" /\ sc.fitted_on = "X"
    /\ pc \in {"L133", "L136", "L137", "L138", "done"} =>
          /\ sc.kind = "StandardScaler" /\ sc.fitted_on = "customers"
          /\ \E k \in 1..Len(scaler_log) :
                scaler_log[k].on = "frauds" /\ scaler_log[k].op = "inverse_transform"

\* C8 happens: both scalers have been used
C8_Witness ==
    /\ pc = "L133"
    /\ Len(scaler_log) = 3

\* the matrices of the pipeline have one row per dataset row, row r of each
\* belonging to the customer of dataset row r
RowsAligned ==
    /\ pc \notin {"L24"} => Len(X) = Len(dataset)
    /\ pc = "L30" => \A r \in 1..Len(dataset) : X[r] = SubSeq(dataset[r], 1, NumColumns - 1)
    /\ pc = "L55" => X = MinMaxTransform(sc, AsFloat(ILocCols(dataset, 1, NumColumns - 1)))
    /\ pc \in {"L100", "L103", "L110", "L111", "L133", "L136", "L137", "L138", "done"} =>
          Len(customers) = Len(dataset)
    /\ pc \in {"L100", "L103", "L110", "L111"} =>
          \A r \in 1..Len(dataset) : customers[r] = SubSeq(dataset[r], 2, NumColumns)
    /\ pc \in {"L133", "L136", "L137", "L138", "done"} =>
          \A r \in 1..Len(dataset) : \A j \in 1..(NumColumns - 1) :
              customers[r][j] = [num  |-> Len(dataset) * dataset[r][j + 1] - sc.sum_[j],
                                 den2 |-> sc.den2_[j]]
    /\ pc \in {"L103", "L110", "L111", "L133", "L136", "L137", "L138", "done"} =>
          Len(is_fraud) = Len(dataset)
    /\ pc \in {"L137", "L138", "done"} => Len(y_pred) = Len(dataset)
    /\ pc = "L138" => \A r \in 1..Len(dataset) : y_pred[r][1] = dataset[r][1]
    /\ error # "ValueError"

\* C9: at every stage X, customers, is_fraud and the predictions have
\* len(dataset) rows in dataset order, no step between their creation and the
\* final sort changes X or drops rows, and classifier.fit gets as many labels
\* as feature rows.
C9_RowAlignment ==
    /\ []RowsAligned
    /\ [][/\ pc \notin {"L24", "L31"} => X' = X
          /\ pc \notin {"L98", "L111"} => customers' = customers
          /\ pc \notin {"L100", "L103"} => is_fraud' = is_fraud
          /\ dataset' = dataset]_vars

\* C9 happens: a full dataset reaches the classifier
C9_Witness ==
    /\ pc = "L136"
    /\ Len(dataset) = MaxRows
    /\ Len(customers) = Len(is_fraud)

FraudsCollected == pc \in {"L91", "L98", "L100", "L103", "L110", "L111", "L133",
                           "L136", "L137", "L138", "done"}

\* C10: for every outcome of the training, the nodes whose buckets form the
\* fraud rows have a distance-map value among the highest of the grid, never
\* one below that of another node.
C10_FraudNodesHaveHighMID ==
    FraudsCollected =>
        \A c \in FraudNodes : \A o \in Coords :
            som.distance_map[c] >= som.distance_map[o]

====
